---- MODULE Spec2Model ----
(***************************************************************************)
(* State-machine model of SMBMounter.py: share discovery (smbclient -L),   *)
(* the share registry (self.shares), the check boxes (self.check_vars),    *)
(* the link farm (~/SMBLinks) and the gvfs mount endpoints.                *)
(*                                                                         *)
(* Strings that the code inspects character by character (share names,     *)
(* listing fields) are sequences of one-character strings.  A listing line *)
(* is the sequence of its whitespace-separated fields, i.e. line.split().  *)
(***************************************************************************)
EXTENDS Integers, Sequences, FiniteSets, TLC

\* ------------------------------------------------------------------------
\* Bounds of the model
\* ------------------------------------------------------------------------
MaxLines == 3      \* lines of a listing enumerated for detect_shares
MaxOps == 5        \* handler invocations and environment events per run

\* ------------------------------------------------------------------------
\* Strings
\* ------------------------------------------------------------------------
photo == <<"p","h","o","t","o">>
music == <<"m","u","s","i","c">>
video == <<"v","i","d","e","o">>
commun == <<"c","o","m","m","u","n">>
IPCdollar == <<"I","P","C","$">>
adollarb == <<"a","$","b">>
Disk == <<"D","i","s","k">>
IPC == <<"I","P","C">>
Dollar == <<"$">>
shared == <<"s","h","a","r","e","d">>
costdollar == <<"c","o","s","t","$">>
Disks == <<"D","i","s","k","s">>

Range(s) == {s[i] : i \in 1..Len(s)}

\* sub in s, for strings
Contains(sub, s) ==
    \E i \in 0..(Len(s) - Len(sub)) : SubSeq(s, i + 1, i + Len(sub)) = sub

\* sub in line, for a sub without white space: it lies inside one field
InLine(sub, line) == \E k \in 1..Len(line) : Contains(sub, line[k])

EndsWith(s, suffix) ==
    /\ Len(s) >= Len(suffix)
    /\ SubSeq(s, Len(s) - Len(suffix) + 1, Len(s)) = suffix

\* ------------------------------------------------------------------------
\* The registry: a dict in insertion order, name -> {"mounted": bool}
\* ------------------------------------------------------------------------
Entry(n, m) == [name |-> n, mounted |-> m]
Keys(reg) == {reg[i].name : i \in 1..Len(reg)}
KeySeq(reg) == [i \in 1..Len(reg) |-> reg[i].name]
Mounted(reg, n) == \E i \in 1..Len(reg) : reg[i].name = n /\ reg[i].mounted
Fresh(names) == [i \in 1..Len(names) |-> Entry(names[i], FALSE)]

\* self.default_shares as built by __init__
InitialDefaultShares ==
    << Entry(photo, FALSE), Entry(music, FALSE),
       Entry(video, FALSE), Entry(commun, FALSE) >>

\* ------------------------------------------------------------------------
\* detect_shares
\* ------------------------------------------------------------------------
\* detect_shares' loop without the "$" test
RECURSIVE ParseLinesKeepDollar(_, _)
ParseLinesKeepDollar(lines, acc) ==
    IF lines = <<>> THEN acc
    ELSE LET line == Head(lines) IN
         IF InLine(Disk, line)
         THEN ParseLinesKeepDollar(Tail(lines),
                         IF line[1] \in Range(acc) THEN acc
                         ELSE Append(acc, line[1]))
         ELSE ParseLinesKeepDollar(Tail(lines), acc)

\* the loop over result.stdout.split('\n'): names in dict insertion order
RECURSIVE ParseLines(_, _)
ParseLines(lines, acc) ==
    IF lines = <<>> THEN acc
    ELSE LET line == Head(lines) IN
         IF InLine(Disk, line) /\ ~InLine(Dollar, line)
         THEN ParseLines(Tail(lines),
                         IF line[1] \in Range(acc) THEN acc
                         ELSE Append(acc, line[1]))
         ELSE ParseLines(Tail(lines), acc)

\* detect_shares whose failure paths return the empty dict built at its start
detect_shares_no_fallback(run, defaults) ==
    IF run.raised
    THEN [shares |-> <<>>, outcome |-> "DiscoveryFailed", fallback |-> FALSE]
    ELSE IF run.returncode = 0
    THEN LET found == ParseLines(run.stdout, <<>>) IN
         IF found = <<>>
         THEN [shares |-> defaults, outcome |-> "NoSharesFound", fallback |-> TRUE]
         ELSE [shares |-> Fresh(found), outcome |-> "Discovered", fallback |-> FALSE]
    ELSE [shares |-> <<>>, outcome |-> "DiscoveryFailed", fallback |-> FALSE]

\* run: the outcome of subprocess.run(["smbclient", "-L", server, "-N"]):
\*   raised (an exception), returncode, stdout (the lines).
\* defaults: the current value of self.default_shares.
\* fallback is TRUE when the result is self.default_shares.copy(), a shallow
\* copy whose entries are the very dicts of self.default_shares.
detect_shares(run, defaults) ==
    IF run.raised
    THEN [shares |-> defaults, outcome |-> "DiscoveryFailed", fallback |-> TRUE]
    ELSE IF run.returncode = 0
    THEN LET found == ParseLines(run.stdout, <<>>) IN
         IF found = <<>>
         THEN [shares |-> defaults, outcome |-> "NoSharesFound", fallback |-> TRUE]
         ELSE [shares |-> Fresh(found), outcome |-> "Discovered", fallback |-> FALSE]
    ELSE [shares |-> defaults, outcome |-> "DiscoveryFailed", fallback |-> TRUE]

\* ------------------------------------------------------------------------
\* The file system: ~/SMBLinks and /run/user/<uid>/gvfs
\* ------------------------------------------------------------------------
default_server == "lagrange"
Servers == {"lagrange", "nas"}
ShareNames == {photo, music, video, commun}
\* the shares the servers really export: gio mount can succeed for these only
Exported == {photo, music}
NoLink == "none"

\* Path(f"/run/user/{uid}/gvfs/smb-share:server={server},share={share}")
Endpoint(srv, share) == <<srv, share>>

\* fs.links[share] is NoLink or the server srv such that ~/SMBLinks/<share> is a
\* symlink to Endpoint(srv, share); fs.endpoints is the set of existing endpoints.
\* link_path.exists() follows the symlink: a dangling link does not "exist".
link_exists(f, share) ==
    /\ f.links[share] # NoLink
    /\ Endpoint(f.links[share], share) \in f.endpoints

\* the state of the link before a call: "absent", "live" or "dangling"
LinkState(f, share) ==
    IF f.links[share] = NoLink THEN "absent"
    ELSE IF link_exists(f, share) THEN "live" ELSE "dangling"

\* gio mount smb://srv/share; o is what the external command does:
\*   "mounted"  returncode 0, the endpoint exists when the command returns
\*   "late"     returncode 0, the endpoint is not materialised by the command
\*   "error"    returncode # 0
\*   "raised"   subprocess.run raises (gio missing, ...)
GioMountOutcomes == {"mounted", "late", "error", "raised"}
gio_mount(endpoints, srv, share, o) ==
    IF o = "mounted" THEN endpoints \cup {Endpoint(srv, share)} ELSE endpoints

\* gio mount -u smb://srv/share with check=True; "ok" or "error" (raises)
GioUnmountOutcomes == {"ok", "error"}
gio_unmount(endpoints, srv, share, o) ==
    IF o = "ok" THEN endpoints \ {Endpoint(srv, share)} ELSE endpoints

\* mount_share that makes the link before it looks at the return code
mount_share_link_first(fs0, srv, share, o) ==
    LET eps == gio_mount(fs0.endpoints, srv, share, o)
        fs1 == [fs0 EXCEPT !.endpoints = eps]
        existed == Endpoint(srv, share) \in eps
        fs2 == IF existed THEN [fs1 EXCEPT !.links[share] = srv] ELSE fs1
        k == o \in {"mounted", "late"}
    IN  [fs |-> fs2, ok |-> k, existed |-> existed,
         events |-> <<"gio mount">> \o (IF existed THEN <<"unlink", "symlink_to">> ELSE <<>>),
         box |-> IF k THEN "showinfo" ELSE "showerror"]

\* mount_share whose symlink_to is the else branch of the link_path.exists() test
mount_share_else(fs0, srv, share, o) ==
    LET eps == gio_mount(fs0.endpoints, srv, share, o)
        fs1 == [fs0 EXCEPT !.endpoints = eps]
        existed == Endpoint(srv, share) \in eps
        Ret(f, k, ev) == [fs |-> f, ok |-> k, existed |-> existed, events |-> ev,
                          box |-> IF k THEN "showinfo" ELSE "showerror"]
    IN  IF o = "raised" THEN Ret(fs1, FALSE, <<"gio mount">>)
        ELSE IF o = "error" THEN Ret(fs1, FALSE, <<"gio mount">>)
        ELSE IF ~existed THEN Ret(fs1, TRUE, <<"gio mount">>)
        ELSE IF link_exists(fs1, share)
        THEN Ret([fs1 EXCEPT !.links[share] = NoLink], TRUE, <<"gio mount", "unlink">>)
        ELSE IF fs1.links[share] # NoLink
        THEN Ret(fs1, FALSE, <<"gio mount", "symlink_to">>)
        ELSE Ret([fs1 EXCEPT !.links[share] = srv], TRUE, <<"gio mount", "symlink_to">>)

\* mount_share(share): returns the file system afterwards, the return value
\* ok, the message box shown, existed = endpoint.exists() at completion and
\* the file-system and OS requests made
mount_share(fs0, srv, share, o) ==
    LET eps == gio_mount(fs0.endpoints, srv, share, o)
        fs1 == [fs0 EXCEPT !.endpoints = eps]
        existed == Endpoint(srv, share) \in eps
        Ret(f, k, ev) == [fs |-> f, ok |-> k, existed |-> existed, events |-> ev,
                          box |-> IF k THEN "showinfo" ELSE "showerror"]
    IN  IF o = "raised" THEN Ret(fs1, FALSE, <<"gio mount">>)
        ELSE IF o = "error" THEN Ret(fs1, FALSE, <<"gio mount">>)
        ELSE IF ~existed THEN Ret(fs1, TRUE, <<"gio mount">>)
        ELSE LET unlinked == link_exists(fs1, share)
                 fs2 == IF unlinked
                        THEN [fs1 EXCEPT !.links[share] = NoLink]   \* unlink()
                        ELSE fs1
                 ev == <<"gio mount">> \o (IF unlinked THEN <<"unlink">> ELSE <<>>)
                                       \o <<"symlink_to">>
             IN  IF fs2.links[share] # NoLink
                 \* symlink_to raises FileExistsError, caught by except Exception
                 THEN Ret(fs2, FALSE, ev)
                 ELSE Ret([fs2 EXCEPT !.links[share] = srv], TRUE, ev)

\* unmount_share that asks the OS first and removes the link only on success
unmount_share_os_first(fs0, srv, share, o) ==
    LET fs1 == [fs0 EXCEPT !.endpoints = gio_unmount(fs0.endpoints, srv, share, o)]
        unlinked == o = "ok" /\ link_exists(fs0, share)
        fs2 == IF unlinked THEN [fs1 EXCEPT !.links[share] = NoLink] ELSE fs1
    IN  [fs |-> fs2, ok |-> (o = "ok"),
         box |-> IF o = "ok" THEN "none" ELSE "showerror",
         events |-> <<"gio mount -u">> \o (IF unlinked THEN <<"unlink">> ELSE <<>>)]

\* unmount_share without the link_path.exists() test: unlink() raises
\* FileNotFoundError when there is no link, and the OS is not asked
unmount_share_no_test(fs0, srv, share, o) ==
    IF fs0.links[share] = NoLink
    THEN [fs |-> fs0, ok |-> FALSE, box |-> "showerror", events |-> <<"unlink">>]
    ELSE [fs |-> [links |-> [fs0.links EXCEPT ![share] = NoLink],
                  endpoints |-> gio_unmount(fs0.endpoints, srv, share, o)],
          ok |-> (o = "ok"),
          box |-> IF o = "ok" THEN "none" ELSE "showerror",
          events |-> <<"unlink", "gio mount -u">>]

\* unmount_share(share): events lists the file-system and OS requests made
unmount_share(fs0, srv, share, o) ==
    LET unlinked == link_exists(fs0, share)
        fs1 == IF unlinked THEN [fs0 EXCEPT !.links[share] = NoLink] ELSE fs0
        fs2 == [fs1 EXCEPT !.endpoints = gio_unmount(fs1.endpoints, srv, share, o)]
    IN  [fs |-> fs2, ok |-> (o = "ok"),
         box |-> IF o = "ok" THEN "none" ELSE "showerror",
         events |-> (IF unlinked THEN <<"unlink">> ELSE <<>>) \o <<"gio mount -u">>]

\* check_mounted_shares
check_mounted_shares(reg, f) ==
    [i \in 1..Len(reg) |-> Entry(reg[i].name, link_exists(f, reg[i].name))]

\* ------------------------------------------------------------------------
\* create_widgets
\* ------------------------------------------------------------------------
\* the methods class SMBMounter defines
Methods ==
    {"__init__", "create_server_form", "connect_to_server", "setup_directories",
     "detect_shares", "create_widgets", "refresh_shares", "mount_selected",
     "mount_share", "unmount_selected", "unmount_share", "check_mounted_shares"}

\* the commands create_widgets binds to buttons, in the order of the code; the
\* check boxes are created after the first button and before the second
Commands == <<"refresh_shares", "mount_selected", "unmount_selected", "unmount_all">>

\* the number of buttons created before command=self.<name> raises
\* AttributeError (all of them when every command is a method)
RECURSIVE Bound(_)
Bound(cmds) ==
    IF cmds = <<>> \/ Head(cmds) \notin Methods THEN 0 ELSE 1 + Bound(Tail(cmds))

CheckVar(n, v) == [name |-> n, value |-> v]

\* create_widgets: the buttons that exist afterwards, self.check_vars (one
\* BooleanVar per share, False), and whether AttributeError was raised
create_widgets(reg, old_check_vars) ==
    LET k == Bound(Commands) IN
    [buttons |-> {Commands[i] : i \in 1..k},
     check_vars |-> IF k >= 1
                    THEN [i \in 1..Len(reg) |-> CheckVar(reg[i].name, FALSE)]
                    ELSE old_check_vars,
     raised |-> k < Len(Commands)]

\* the share names whose check box is ticked, in the order of self.check_vars
RECURSIVE Ticked(_)
Ticked(cv) ==
    IF cv = <<>> THEN <<>>
    ELSE (IF Head(cv).value THEN <<Head(cv).name>> ELSE <<>>) \o Ticked(Tail(cv))

\* server_entry.get().strip() for the texts the user types
Entries == {"lagrange", " nas ", "  "}
Strip(text) ==
    CASE text = " nas " -> "nas"
      [] text = "  " -> ""
      [] OTHER -> text

\* ------------------------------------------------------------------------
\* The outcomes of smbclient -L
\* ------------------------------------------------------------------------
Run(r, c, out) == [raised |-> r, returncode |-> c, stdout |-> out]
NoRun == Run(FALSE, 0, <<>>)

Listing1 == << <<photo, Disk>>, <<IPCdollar, IPC>>, <<music, Disk>> >>
Listing2 == << <<music, Disk>>, <<video, Disk, shared>> >>
Listing3 == << <<IPCdollar, IPC>> >>
Runs == {Run(TRUE, 0, <<>>), Run(FALSE, 1, <<>>),
         Run(FALSE, 0, Listing1), Run(FALSE, 0, Listing2), Run(FALSE, 0, Listing3)}

\* all listings of at most MaxLines lines: name, type and optional comment
LineNames == {photo, music, IPCdollar, adollarb}
LineTypes == {Disk, IPC}
LineComments == {costdollar, Disks}
Lines ==
    {<<>>} \cup {<<n, t>> : n \in LineNames, t \in LineTypes}
           \cup {<<n, t, c>> : n \in LineNames, t \in LineTypes, c \in LineComments}
Listings == UNION {[1..k -> Lines] : k \in 0..MaxLines}
DetectRuns ==
    {Run(TRUE, 0, <<>>), Run(FALSE, 1, <<>>)} \cup {Run(FALSE, 0, l) : l \in Listings}

\* ------------------------------------------------------------------------
\* State
\* ------------------------------------------------------------------------
VARIABLES
    server,          \* self.server
    shares,          \* self.shares
    default_shares,  \* self.default_shares
    aliased,         \* the entries of self.shares are those of self.default_shares
    check_vars,      \* self.check_vars
    buttons,         \* the commands that have a button in main_frame
    fs,              \* links of ~/SMBLinks and existing gvfs endpoints
    pc,              \* "idle", or the batch handler that is running
    queue,           \* the shares the running batch still has to process
    batch,           \* the last batch handler started since the last discovery
    selected,        \* the shares ticked when that batch started
    results,         \* share and return value of each call of the last batch
    last,            \* the last mount_share / unmount_share call
    proc,            \* the smbclient result DetectApply is given
    outcome,         \* the outcome of the last detect_shares
    fault,           \* the exception that escaped the last handler, or "none"
    ops              \* number of handler invocations and environment events so far

vars == <<server, shares, default_shares, aliased, check_vars, buttons, fs, pc,
          queue, batch, selected, results, last, proc, outcome, fault, ops>>

NoCall == [op |-> "none"]

InitCommon ==
    /\ server = default_server
    /\ shares = <<>>
    /\ default_shares = InitialDefaultShares
    /\ aliased = FALSE
    /\ check_vars = <<>>
    /\ buttons = {}
    /\ fs = [links |-> [n \in ShareNames |-> NoLink], endpoints |-> {}]
    /\ queue = <<>>
    /\ batch = "none"
    /\ selected = <<>>
    /\ results = <<>>
    /\ last = NoCall
    /\ outcome = "none"
    /\ fault = "none"
    /\ ops = 0

Init ==
    /\ InitCommon
    /\ pc = "idle"
    /\ proc = NoRun

\* writes through self.shares reach self.default_shares when the entries are shared
Defaults(reg, isAliased, defaults) == IF isAliased THEN reg ELSE defaults

\* connect_to_server that updates self.shares with the detected shares
\* instead of replacing it
connect_to_server_update(text, run) ==
    LET new_server == Strip(text)
        d == detect_shares(run, default_shares)
        kept == SelectSeq(shares, LAMBDA e : e.name \notin Keys(d.shares))
        w == create_widgets(d.shares \o kept, check_vars)
        reg == IF w.raised THEN d.shares \o kept
               ELSE check_mounted_shares(d.shares \o kept, fs)
    IN  /\ pc = "idle"
        /\ ops < MaxOps
        /\ ops' = ops + 1
        /\ IF new_server = ""
           THEN /\ fault' = "none"
                /\ UNCHANGED <<server, shares, default_shares, aliased, check_vars,
                               buttons, outcome, batch, selected, results, last>>
           ELSE /\ server' = new_server
                /\ batch' = "none"
                /\ selected' = <<>>
                /\ results' = <<>>
                /\ last' = NoCall
                /\ outcome' = d.outcome
                /\ aliased' = (d.fallback /\ kept = <<>>)
                /\ shares' = reg
                /\ default_shares' = default_shares
                /\ check_vars' = w.check_vars
                /\ buttons' = w.buttons
                /\ fault' = IF w.raised THEN "AttributeError" ELSE "none"
        /\ UNCHANGED <<fs, pc, queue, proc>>

\* connect_to_server with the text of the server entry and the smbclient run
connect_to_server(text, run) ==
    LET new_server == Strip(text)
        d == detect_shares(run, default_shares)
        w == create_widgets(d.shares, check_vars)
        reg == IF w.raised THEN d.shares ELSE check_mounted_shares(d.shares, fs)
    IN  /\ pc = "idle"
        /\ ops < MaxOps
        /\ ops' = ops + 1
        /\ IF new_server = ""
           THEN /\ fault' = "none"
                /\ UNCHANGED <<server, shares, default_shares, aliased, check_vars,
                               buttons, outcome, batch, selected, results, last>>
           ELSE /\ server' = new_server
                /\ batch' = "none"
                /\ selected' = <<>>
                /\ results' = <<>>
                /\ last' = NoCall
                /\ outcome' = d.outcome
                /\ aliased' = d.fallback
                /\ shares' = reg
                /\ default_shares' = Defaults(reg, d.fallback, default_shares)
                /\ check_vars' = w.check_vars
                /\ buttons' = w.buttons
                /\ fault' = IF w.raised THEN "AttributeError" ELSE "none"
        /\ UNCHANGED <<fs, pc, queue, proc>>

\* the value refresh_shares restores into a check box
Restored(cv, mounted_states) ==
    [i \in 1..Len(cv) |->
        IF \E j \in 1..Len(mounted_states) : mounted_states[j].name = cv[i].name
        THEN CheckVar(cv[i].name, Mounted(mounted_states, cv[i].name))
        ELSE cv[i]]

\* refresh_shares
refresh_shares(run) ==
    LET mounted_states == SelectSeq(shares,
                              LAMBDA e : \E i \in 1..Len(check_vars) : check_vars[i].name = e.name)
        d == detect_shares(run, default_shares)
        w == create_widgets(d.shares, check_vars)
    IN  /\ pc = "idle"
        /\ "refresh_shares" \in buttons
        /\ ops < MaxOps
        /\ ops' = ops + 1
        /\ last' = NoCall
        /\ outcome' = d.outcome
        /\ aliased' = d.fallback
        /\ shares' = d.shares
        /\ buttons' = w.buttons
        /\ check_vars' = IF w.raised THEN w.check_vars
                         ELSE Restored(w.check_vars, mounted_states)
        /\ fault' = IF w.raised THEN "AttributeError" ELSE "none"
        /\ batch' = "none"
        /\ selected' = <<>>
        /\ results' = <<>>
        /\ UNCHANGED <<server, default_shares, fs, pc, queue, proc>>

\* the check boxes after the user has clicked those of the positions in ticks
Toggle(cv, ticks) ==
    [i \in 1..Len(cv) |-> IF i \in ticks THEN CheckVar(cv[i].name, ~cv[i].value) ELSE cv[i]]

\* ------------------------------------------------------------------------
\* mount_selected and unmount_selected: one step per call of the loop body;
\* the step that empties the queue also runs the trailing check_mounted_shares
\* ------------------------------------------------------------------------
Result(n, k) == [share |-> n, ok |-> k]

\* a loop that stops at the first call that fails
loop_rest_break(q, ok) == IF ok THEN Tail(q) ELSE <<>>

\* the shares of the for loop still to visit after the call on Head(q) returned ok
loop_rest(q, ok) == Tail(q)

\* the state a batch handler leaves when q is what remains of the loop
Continue(handler, q) ==
    /\ queue' = q
    /\ IF q = <<>>
       THEN /\ pc' = "idle"
            /\ shares' = check_mounted_shares(shares, fs')
            /\ default_shares' = Defaults(shares', aliased, default_shares)
       ELSE /\ pc' = handler
            /\ UNCHANGED <<shares, default_shares>>

\* the user clicks the check boxes of ticks, then the button of handler
StartBatch(handler, ticks) ==
    /\ pc = "idle"
    /\ handler \in buttons
    /\ ticks \subseteq 1..Len(check_vars)
    /\ ops < MaxOps
    /\ ops' = ops + 1
    /\ check_vars' = Toggle(check_vars, ticks)
    /\ batch' = handler
    /\ selected' = Ticked(check_vars')
    /\ results' = <<>>
    /\ last' = NoCall
    /\ fault' = "none"
    /\ fs' = fs
    /\ Continue(handler, Ticked(check_vars'))
    /\ UNCHANGED <<server, aliased, buttons, proc, outcome>>

mount_selected(ticks) == StartBatch("mount_selected", ticks)

unmount_selected(ticks) == StartBatch("unmount_selected", ticks)

\* mount_selected calls mount_share on the next ticked share
MountStep(o) ==
    LET share == Head(queue)
        r == mount_share(fs, server, share, o)
    IN  /\ pc = "mount_selected"
        /\ o \in {"mounted", "late"} => share \in Exported
        /\ fs' = r.fs
        /\ results' = Append(results, Result(share, r.ok))
        /\ last' = [op |-> "mount", server |-> server, share |-> share,
                    prior |-> LinkState(fs, share), ok |-> r.ok,
                    existed |-> r.existed, events |-> r.events]
        /\ Continue("mount_selected", loop_rest(queue, r.ok))
        /\ UNCHANGED <<server, aliased, check_vars, buttons, batch, selected, proc,
                       outcome, fault, ops>>

\* unmount_selected calls unmount_share on the next ticked share
UnmountStep(o) ==
    LET share == Head(queue)
        r == unmount_share(fs, server, share, o)
    IN  /\ pc = "unmount_selected"
        /\ fs' = r.fs
        /\ results' = Append(results, Result(share, r.ok))
        /\ last' = [op |-> "unmount", server |-> server, share |-> share,
                    prior |-> LinkState(fs, share), ok |-> r.ok,
                    existed |-> Endpoint(server, share) \in r.fs.endpoints,
                    events |-> r.events]
        /\ Continue("unmount_selected", loop_rest(queue, r.ok))
        /\ UNCHANGED <<server, aliased, check_vars, buttons, batch, selected, proc,
                       outcome, fault, ops>>

\* the environment: an endpoint disappears (server offline, unmount from the
\* file manager, end of the login session) while the program is idle
EndpointVanish(e) ==
    /\ pc = "idle"
    /\ e \in fs.endpoints
    /\ ops < MaxOps
    /\ ops' = ops + 1
    /\ fs' = [fs EXCEPT !.endpoints = @ \ {e}]
    /\ UNCHANGED <<server, shares, default_shares, aliased, check_vars, buttons, pc,
                   queue, batch, selected, results, last, proc, outcome, fault>>

Next ==
    \/ \E text \in Entries, run \in Runs : connect_to_server(text, run)
    \/ \E run \in Runs : refresh_shares(run)
    \/ \E ticks \in SUBSET (1..Len(check_vars)) : mount_selected(ticks)
    \/ \E ticks \in SUBSET (1..Len(check_vars)) : unmount_selected(ticks)
    \/ \E o \in GioMountOutcomes : MountStep(o)
    \/ \E o \in GioUnmountOutcomes : UnmountStep(o)
    \/ \E e \in Servers \X Exported : EndpointVanish(e)

Spec == Init /\ [][Next]_vars

\* ------------------------------------------------------------------------
\* detect_shares on every smbclient outcome of DetectRuns
\* ------------------------------------------------------------------------
InitDetect ==
    /\ InitCommon
    /\ pc = "detect"
    /\ proc \in DetectRuns

DetectApply ==
    LET d == detect_shares(proc, default_shares) IN
    /\ pc = "detect"
    /\ pc' = "detected"
    /\ shares' = d.shares
    /\ outcome' = d.outcome
    /\ aliased' = d.fallback
    /\ UNCHANGED <<server, default_shares, check_vars, buttons, fs, queue, batch,
                   selected, results, last, proc, fault, ops>>

NextDetect == DetectApply

SpecDetect == InitDetect /\ [][NextDetect]_vars

\* ------------------------------------------------------------------------
\* Properties
\* ------------------------------------------------------------------------
ResultShares == [i \in 1..Len(results) |-> results[i].share]
FallbackNames == KeySeq(InitialDefaultShares)
DetectSucceeded == pc = "detected" /\ ~proc.raised /\ proc.returncode = 0

\* C1: every unmount_share call leaves link_path.exists() false for its share,
\* whether gio mount -u succeeded or failed and whatever the link was before
\* (absent, live or dangling).
C1_UnmountLeavesNoLink ==
    [][pc = "unmount_selected" => ~link_exists(fs', Head(queue))]_vars

C1_Witness ==
    /\ last.op = "unmount"
    /\ last.prior = "dangling"
    /\ ~last.ok

\* C2: when a mount_share call is immediately followed by check_mounted_shares,
\* the share is flagged mounted exactly when the endpoint of (current server,
\* share) existed when the call completed.
C2_MountedIffEndpointExisted ==
    (pc = "idle" /\ last.op = "mount" /\ last.share \in Keys(shares))
        => (Mounted(shares, last.share) <=> last.existed)

\* C3: mount_selected calls mount_share once on every ticked share, in the
\* order of the check boxes, whatever the earlier calls returned: the results
\* so far followed by the shares still to visit are always the ticked shares,
\* and nothing is left to visit when the handler has returned.
C3_MountManyVisitsAll ==
    batch = "mount_selected" =>
        /\ ResultShares \o queue = selected
        /\ pc = "idle" => queue = <<>>
        /\ last.op = "mount" =>
              /\ last.share = results[Len(results)].share
              /\ last.events[1] = "gio mount"

C3_Witness ==
    /\ batch = "mount_selected"
    /\ pc = "idle"
    /\ Len(results) = 3
    /\ ~results[1].ok
    /\ results[2].ok

\* C4: a refresh_shares step leaves a registry in which a share is flagged
\* mounted exactly when it was in the registry before and flagged mounted there.
C4_RefreshKeepsMounted ==
    [][(\E run \in Runs : refresh_shares(run)) =>
          \A i \in 1..Len(shares') :
              shares'[i].mounted = Mounted(shares, shares'[i].name)]_vars

\* C5: no share name ending in "$" is in the set detect_shares returns.
C5_NoDollarShare ==
    pc = "detected" => \A n \in Keys(shares) : ~EndsWith(n, Dollar)

C5_Witness ==
    /\ pc = "detected"
    /\ outcome = "Discovered"
    /\ \E i \in 1..Len(proc.stdout) :
          /\ Len(proc.stdout[i]) >= 2
          /\ EndsWith(proc.stdout[i][1], Dollar)
          /\ proc.stdout[i][2] = Disk

\* the names of the lines whose type field is Disk and whose name does not end in "$"
DiskShares(lines) ==
    {lines[i][1] : i \in {j \in 1..Len(lines) :
                            /\ Len(lines[j]) >= 2
                            /\ lines[j][2] = Disk
                            /\ ~EndsWith(lines[j][1], Dollar)}}

\* C6: on a successful listing detect_shares returns exactly the names of the
\* lines whose type field is Disk and whose name does not end in "$".
C6_SelectsDiskShares ==
    (DetectSucceeded /\ (DiskShares(proc.stdout) # {} \/ outcome = "Discovered"))
        => (outcome = "Discovered" /\ Keys(shares) = DiskShares(proc.stdout))

\* C7: on a successful listing without any line of type Disk detect_shares
\* returns the fallback shares and the outcome NoSharesFound.
C7_NoDiskLineGivesFallback ==
    (DetectSucceeded /\ \A i \in 1..Len(proc.stdout) :
                            ~(Len(proc.stdout[i]) >= 2 /\ proc.stdout[i][2] = Disk))
        => (outcome = "NoSharesFound" /\ KeySeq(shares) = FallbackNames)

\* C8: detect_shares always returns a non-empty registry; when smbclient exits
\* non-zero or cannot be run, the outcome is DiscoveryFailed and the registry
\* is the fallback set.
C8_FailureGivesFallback ==
    pc = "detected" =>
        /\ shares # <<>>
        /\ outcome \in {"Discovered", "NoSharesFound", "DiscoveryFailed"}
        /\ (proc.raised \/ proc.returncode # 0) =>
              (outcome = "DiscoveryFailed" /\ KeySeq(shares) = FallbackNames)

C8_Witness ==
    /\ pc = "detected"
    /\ proc.raised
    /\ outcome = "DiscoveryFailed"

\* C9: an unmount_share call on a share without a link leaves every link as
\* it was, makes no unlink request and issues the gio mount -u request.
C9_UnmountWithoutLink ==
    [][(pc = "unmount_selected" /\ fs.links[Head(queue)] = NoLink) =>
          /\ fs'.links = fs.links
          /\ last'.events = <<"gio mount -u">>]_vars

C9_Witness ==
    /\ last.op = "unmount"
    /\ last.prior = "absent"
    /\ last.events = <<"gio mount -u">>

\* C10: whenever shares have been discovered, the unmount_all command is
\* available (bound to a button of the interface).
C10_UnmountAllAvailable ==
    shares # <<>> => "unmount_all" \in buttons

\* the share names a discovery pass on run produces: those of the listing, or
\* the fallback names
DiscoveredNames(run) ==
    IF ~run.raised /\ run.returncode = 0 /\ ParseLines(run.stdout, <<>>) # <<>>
    THEN Range(ParseLines(run.stdout, <<>>))
    ELSE Range(FallbackNames)

\* C11: after connect_to_server with a server name, the keys of the registry
\* are exactly the share names of this discovery pass (or the fallback names);
\* no name of the registry of before remains unless this pass produced it.
C11_ConnectReplacesRegistry ==
    [][(pc = "idle" /\ pc' = "idle" /\ fs' = fs /\ batch' = "none") =>
          \A text \in Entries, run \in Runs :
              (connect_to_server(text, run) /\ Strip(text) # "") =>
                  /\ Keys(shares') = DiscoveredNames(run)
                  /\ Len(shares') = Cardinality(DiscoveredNames(run))
                  /\ server' = Strip(text)]_vars

C11_Witness ==
    /\ server = "nas"
    /\ KeySeq(shares) = <<music, video>>
    /\ fs.links[photo] = "lagrange"
    /\ batch = "none"

\* what gio mount can answer for a share
MountOutcomesFor(share) ==
    {o \in GioMountOutcomes : o \in {"mounted", "late"} => share \in Exported}

\* C12: in every state and for every share of the registry, a second
\* mount_share call (the OS answering as the first time, or with an error)
\* leaves the links and the flags check_mounted_shares computes as the first
\* call left them; likewise a second unmount_share call, whatever the OS answers.
C12_SecondCallChangesNothing ==
    \A i \in 1..Len(shares) :
        LET s == shares[i].name IN
        /\ \A o1 \in MountOutcomesFor(s) :
              \A once \in {mount_share(fs, server, s, o1).fs} :
              \A o2 \in {o1, "error", "raised"} :
              \A twice \in {mount_share(once, server, s, o2).fs} :
                  /\ twice.links = once.links
                  /\ check_mounted_shares(shares, twice) = check_mounted_shares(shares, once)
        /\ \A o1 \in GioUnmountOutcomes :
              \A once \in {unmount_share(fs, server, s, o1).fs} :
              \A o2 \in GioUnmountOutcomes :
              \A twice \in {unmount_share(once, server, s, o2).fs} :
                  /\ twice.links = once.links
                  /\ check_mounted_shares(shares, twice) = check_mounted_shares(shares, once)

\* a mount_share call on a share already linked to its endpoint, where the
\* redundant gio mount failed
C12_Witness ==
    /\ last.op = "mount"
    /\ last.prior = "live"
    /\ last.existed
    /\ ~last.ok
    /\ fs.links[last.share] = server

\* the last mount_share call got returncode 0 and found its endpoint
LinkAttempted == last.op = "mount" /\ "symlink_to" \in Range(last.events)

\* C13: after a mount_share call whose gio mount succeeded and whose endpoint
\* exists, the call has returned True and the link of the share points at the
\* endpoint of (current server, share), whatever the link was before.
C13_MountLinksCurrentEndpoint ==
    LinkAttempted => (last.ok /\ fs.links[last.share] = last.server)

\* C14: every unmount_share call removes the link of the share, then issues
\* exactly one gio mount -u, never in the other order, and the link stays
\* removed when gio mount -u fails.
C14_UnlinkThenUnmount ==
    last.op = "unmount" =>
        /\ fs.links[last.share] = NoLink
        /\ last.events \in {<<"gio mount -u">>, <<"unlink", "gio mount -u">>}

\* C15: a mount_share call whose gio mount exits non-zero returns False and
\* leaves every link and the keys of the registry as they were.
C15_FailedMountChangesNothing ==
    [][MountStep("error") =>
          /\ ~last'.ok
          /\ results'[Len(results')] = Result(Head(queue), FALSE)
          /\ fs'.links = fs.links
          /\ KeySeq(shares') = KeySeq(shares)]_vars

C15_Witness ==
    /\ last.op = "mount"
    /\ last.prior = "dangling"
    /\ ~last.existed
    /\ ~last.ok
    /\ last.events = <<"gio mount">>

\* C16: when gio mount succeeded and making the link failed, mount_share has
\* returned False, has issued no gio mount -u, and the link of the share does
\* not point at an endpoint that does not exist.
C16_LinkFailureLeavesNoDanglingLink ==
    (LinkAttempted /\ ~last.ok) =>
        /\ "gio mount -u" \notin Range(last.events)
        /\ LinkState(fs, last.share) # "dangling"

\* a step in which connect_to_server (with a server name) or refresh_shares
\* installs the registry of a discovery pass
Discovers ==
    \/ \E run \in Runs : refresh_shares(run)
    \/ \E text \in Entries, run \in Runs : connect_to_server(text, run) /\ Strip(text) # ""

\* a step that ends mount_selected or unmount_selected, check_mounted_shares included
Reconciles ==
    /\ pc' = "idle"
    /\ \/ pc # "idle"
       \/ \E ticks \in SUBSET (1..Len(check_vars)) :
             mount_selected(ticks) \/ unmount_selected(ticks)

\* C17: the registry a discovery pass installs has mounted = False for every share.
C17_DiscoveredUnmounted ==
    [][Discovers => \A i \in 1..Len(shares') : ~shares'[i].mounted]_vars

\* C18: when a handler (connect_to_server with a server name, refresh_shares,
\* mount_selected, unmount_selected) has completed, every share of the registry
\* is flagged mounted exactly when its link exists.
C18_IdleFlagsMatchLinks ==
    [][(Discovers \/ Reconciles) =>
          \A i \in 1..Len(shares') :
              shares'[i].mounted <=> link_exists(fs', shares'[i].name)]_vars

\* C19: after check_mounted_shares, the link of every share flagged mounted
\* points at the endpoint of (current server, share).
C19_MountedLinkIsCurrentServer ==
    [][Reconciles =>
          \A i \in 1..Len(shares') :
              shares'[i].mounted => fs'.links[shares'[i].name] = server']_vars

====
